---- MODULE Spec2Model ----
(***************************************************************************)
(* A model of opentrade's risk gate (src/opentrade/risk.h) and market-data *)
(* hub (src/opentrade/market_data.h).                                      *)
(*                                                                         *)
(* The header files define six pieces that share no state:                 *)
(*   - Throttle            the one-second event counter        (SpecThrottle)*)
(*   - DataSrc             the source-identifier codec         (SpecCodec)  *)
(*   - MarketData derived  the per-record std::any cache       (SpecDerived)*)
(*   - RiskManager         the order-admission gate            (SpecRisk)   *)
(*   - MarketDataManager   the per-source record stores        (SpecMD)     *)
(*   - Quote, Trade        the change tests of the records     (SpecCompare)*)
(* SpecThrottleMT and SpecDerivedMT run the Throttle and the derived cache *)
(* with several threads, one statement of a call at a time.                *)
(* Each has its own initial predicate and next-state relation; the         *)
(* variables of the other pieces stay at their initial values.             *)
(***************************************************************************)
EXTENDS Integers, Sequences, FiniteSets, TLC

VARIABLES
  \* ---- Throttle (risk.h:22-38)
  th,          \* one Throttle object: [n, tm]
  updates,     \* history: the seconds passed to Update, in call order
  thBefore,    \* history: the Throttle as it was before the last Update
  rd,          \* the last operator() call since the last Update: [valid, tm, val, th],
               \* th the Throttle as it was before the call
  \* ---- DataSrc (market_data.h:87-121)
  name,        \* the const char* handed to GetId: [null, s], s a sequence of char codes
  id,          \* the IdType GetId returned
  str,         \* the C string GetStr returned
  pcCodec,     \* "start", "encoded" (GetId returned) or "decoded" (GetStr returned)
  \* ---- MarketData derived cache (market_data.h:61-84)
  derived,     \* per record, the AnyVec* derived: [alloc, vec], vec a sequence of std::any
  crashed,     \* the process was killed by an element write outside the vector
  stray,       \* the (record, slot) element writes that landed outside the vector
  written,     \* history: the (record, slot) pairs SetDerived has been called for
  nsets,       \* history: number of SetDerived calls so far
  lastSet,     \* history: the last SetDerived call: [valid, rec, slot, value, inside]
  lastGet,     \* the last GetDerived call since the last SetDerived: [valid, rec, slot, T, res]
  \* ---- RiskManager (risk.h:11-20, 40-52)
  disabled_,   \* RiskManager::disabled_
  limits,      \* the Limits in force
  kRiskError,  \* the thread_local diagnostic string, one per execution context
  now,         \* the wall-clock second
  msgThrottle, \* the global message-rate Throttle
  secThrottle, \* the per-security message-rate Throttles
  lastCheck,   \* the Check call, when it was the last operation: [valid, ctx, ord, pos, result]
  nchecks,     \* history: number of Check calls so far
  checksInSec, \* history: number of Check calls in the current second
  disableCalled, \* history: Disable() has been called
  configured,  \* history: the limits have been configured away from their defaults
  \* ---- MarketDataManager (market_data.h:123-171)
  added,       \* the adapters registered with Add
  src_,        \* MarketDataAdapter::src_ per adapter
  md_,         \* MarketDataAdapter::md_ per adapter: the source whose store it points to, 0 = nullptr
  default_,    \* MarketDataManager::default_
  routes_,     \* MarketDataManager::routes_: <<source, exchange>> -> sequence of adapters
  md_of_src_,  \* MarketDataManager::md_of_src_: source -> [present, recs: security id -> address]
  heap,        \* the MarketData objects of the stores, by address (1..Len(heap))
  refs,        \* history: the references Get and GetLite returned: [src, sec, addr, upd],
               \* upd the number of record updates made before the call
  subscribed,  \* history: number of Subscribe(sec) calls each adapter received
  truth,       \* history: per (source, security id), the record as its adapters wrote it
  nupdates,    \* history: number of record updates so far
  ncalls,      \* history: number of Get, GetLite and Subscribe calls on the manager so far
  usedGet,     \* history: Get or Subscribe of the manager has been called
  \* ---- Quote and Trade comparison (market_data.h:24-51)
  lastQuoteCmp, \* the last comparison of two Quotes: [valid, a, b, ne, eq]
  lastTradeCmp, \* the last comparison of two Trades: [valid, a, b, ne]
  \* ---- Throttle::Update called from several threads (risk.h:30-37)
  pcU,         \* per thread, the statement of Update it is at: "idle", "test", "reset",
               \* "assign" or "inc"
  argU,        \* per thread, the parameter tm2 of its call
  fetched,     \* per thread, the value its last n++ fetched
  startedU,    \* history: number of Update calls started
  doneU,       \* history: number of Update calls that have returned
  sameOnly,    \* history: every call so far was for the second stored in tm
  overlapped,  \* history: some call started while another thread was inside Update
  \* ---- SetDerived and GetDerived called from several threads (market_data.h:61-84)
  mutex_,      \* per std::shared_mutex object: [writer, readers]
  pcD,         \* per thread: "idle", "lockw", "writing", "lockr" or "reading"
  opD,         \* per thread, the call it is in: [rec, slot, value, T]
  nops         \* history: number of SetDerived and GetDerived calls started by the threads

throttleVars == <<th, updates, thBefore, rd>>
codecVars == <<name, id, str, pcCodec>>
derivedVars == <<derived, crashed, stray, written, nsets, lastSet, lastGet>>
riskVars == <<disabled_, limits, kRiskError, now, msgThrottle, secThrottle,
              lastCheck, nchecks, checksInSec, disableCalled, configured>>
mdVars == <<added, src_, md_, default_, routes_, md_of_src_, heap, refs,
            subscribed, truth, nupdates, ncalls, usedGet>>
compareVars == <<lastQuoteCmp, lastTradeCmp>>
mtVars == <<pcU, argU, fetched, startedU, doneU, sameOnly, overlapped>>
lockVars == <<mutex_, pcD, opD, nops>>
vars == <<throttleVars, codecVars, derivedVars, riskVars, mdVars, compareVars, mtVars,
          lockVars>>

NullPtr == "nullptr"

\* The pieces share no state: an operation of one leaves the others alone.
OnlyThrottle ==
  UNCHANGED <<codecVars, derivedVars, riskVars, mdVars, compareVars, mtVars, lockVars>>
OnlyCodec ==
  UNCHANGED <<throttleVars, derivedVars, riskVars, mdVars, compareVars, mtVars, lockVars>>
OnlyDerived ==
  UNCHANGED <<throttleVars, codecVars, riskVars, mdVars, compareVars, mtVars, lockVars>>
OnlyRisk ==
  UNCHANGED <<throttleVars, codecVars, derivedVars, mdVars, compareVars, mtVars, lockVars>>
OnlyMD ==
  UNCHANGED <<throttleVars, codecVars, derivedVars, riskVars, compareVars, mtVars, lockVars>>
OnlyCompare ==
  UNCHANGED <<throttleVars, codecVars, derivedVars, riskVars, mdVars, mtVars, lockVars>>
OnlyThrottleMT ==
  UNCHANGED <<updates, thBefore, rd, codecVars, derivedVars, riskVars, mdVars, compareVars,
              lockVars>>
OnlyDerivedMT ==
  UNCHANGED <<throttleVars, codecVars, riskVars, mdVars, compareVars, mtVars>>

Last(s) == s[Len(s)]

(***************************************************************************)
(* Throttle                                                                *)
(***************************************************************************)
\* Bound: number of Update calls in a run.
MaxUpdates == 5

\* The seconds handed to Update and to operator(): the two of the spec's
\* example and 0, the value the tm member is constructed with.
Seconds == {0, 100, 101}

\* struct Throttle { tbb::atomic<int> n = 0; int tm = 0; }
\* n is a 32-bit int; MaxUpdates keeps it far below INT_MAX, so n++ never wraps here.
ThrottleNew == [n |-> 0, tm |-> 0]

\* operator() with its test inverted: the counter for every second but the stored one.
ThrottleReadOthers(t, tm) == IF tm = t.tm THEN 0 ELSE t.n

\* int operator()(int tm) const
ThrottleRead(t, tm) == IF tm # t.tm THEN 0 ELSE t.n

\* void Update(int tm2): on a new second the code resets n and then assigns
\* the member to the PARAMETER (tm2 = tm), so the member tm keeps its value.
ThrottleUpdate(t, tm2) ==
  IF tm2 # t.tm THEN [n |-> 0, tm |-> t.tm] ELSE [n |-> t.n + 1, tm |-> t.tm]

NoRead == [valid |-> FALSE, tm |-> 0, val |-> 0, th |-> ThrottleNew]

ThrottleInit ==
  /\ th = ThrottleNew
  /\ updates = <<>>
  /\ thBefore = ThrottleNew
  /\ rd = NoRead

Update(tm2) ==
  /\ OnlyThrottle
  /\ Len(updates) < MaxUpdates
  /\ th' = ThrottleUpdate(th, tm2)
  /\ updates' = Append(updates, tm2)
  /\ thBefore' = th
  /\ rd' = NoRead

Read(tm) ==
  /\ OnlyThrottle
  /\ rd' = [valid |-> TRUE, tm |-> tm, val |-> ThrottleRead(th, tm), th |-> th]
  /\ UNCHANGED <<th, updates, thBefore>>

NextThrottle ==
  \/ \E tm2 \in Seconds : Update(tm2)
  \/ \E tm \in Seconds : Read(tm)

\* Number of trailing calls of `updates` that are for the same second as the last.
RECURSIVE RunLen(_)
RunLen(s) ==
  IF Len(s) <= 1 THEN Len(s)
  ELSE IF s[Len(s) - 1] = s[Len(s)] THEN 1 + RunLen(SubSeq(s, 1, Len(s) - 1))
       ELSE 1

(***************************************************************************)
(* DataSrc: the source-identifier codec                                    *)
(***************************************************************************)
\* Bound: length of the names handed to GetId.
MaxNameLen == 5

\* ASCII character codes: the lowest and highest non-NUL ones, and 'A', 'B'.
Chars == {1, 65, 66, 127}

RECURSIVE SeqsUpTo(_, _)
SeqsUpTo(S, k) ==
  IF k = 0 THEN {<<>>}
  ELSE LET shorter == SeqsUpTo(S, k - 1)
       IN shorter \cup {Append(s, c) : s \in {x \in shorter : Len(x) = k - 1}, c \in S}

\* The pointers handed to GetId: the null pointer, or a NUL-terminated string.
CString(s) == [null |-> FALSE, s |-> s]
NullName == [null |-> TRUE, s |-> <<>>]
Names == {CString(s) : s \in SeqsUpTo(Chars, MaxNameLen)} \cup {NullName}

\* typedef uint32_t IdType: x << 8 in 32 bits drops the top byte of x, that is
\* (x * 256) mod 2^32 = (x mod 2^24) * 256.
Shl8(x) == (x % 16777216) * 256

\* x rotated left by 8 bits in 32 bits: the top byte comes back in at the bottom.
Rotl8(x) == (x % 16777216) * 256 + (x \div 16777216)

\* GetId folding the bits shifted out of the 32-bit value back into it.
RECURSIVE GetIdFolding(_)
GetIdFolding(src) ==
  IF src.null \/ src.s = <<>> THEN 0
  ELSE IF Len(src.s) = 1 THEN src.s[1]
       ELSE LET r == Rotl8(GetIdFolding(CString(Tail(src.s))))
            IN (r - (r % 256)) + ((r + src.s[1]) % 256)

\* static constexpr IdType GetId(const char* src)
RECURSIVE GetId(_)
GetId(src) ==
  IF src.null \/ src.s = <<>> THEN 0
  ELSE IF Len(src.s) = 1 THEN src.s[1]
       ELSE Shl8(GetId(CString(Tail(src.s)))) + src.s[1]

\* The bytes GetStr's loop writes to str[0..i) before the terminator:
\* for (i = 0u; i < 4 && id; ++i) { str[i] = id & 0xFF; id >>= 8; }
RECURSIVE StrBytes(_, _, _)
StrBytes(v, i, n) ==
  IF i < n /\ v # 0 THEN <<v % 256>> \o StrBytes(v \div 256, i + 1, n) ELSE <<>>

\* A char buffer read as a C string: the bytes before the first NUL.
RECURSIVE CStr(_)
CStr(buf) ==
  IF buf = <<>> \/ buf[1] = 0 THEN <<>> ELSE <<buf[1]>> \o CStr(Tail(buf))

\* GetStr whose loop stops one byte early.
GetStrShort(v) == CStr(StrBytes(v, 0, 3) \o <<0>>)

\* static const char* GetStr(IdType id)
GetStr(v) == CStr(StrBytes(v, 0, 4) \o <<0>>)

CodecIdle ==
  /\ name = NullName
  /\ id = 0
  /\ str = <<>>
  /\ pcCodec = "start"

CodecInit ==
  /\ name \in Names
  /\ id = 0
  /\ str = <<>>
  /\ pcCodec = "start"

\* id = DataSrc::GetId(name)
Encode ==
  /\ OnlyCodec
  /\ pcCodec = "start"
  /\ id' = GetId(name)
  /\ pcCodec' = "encoded"
  /\ UNCHANGED <<name, str>>

\* str = DataSrc::GetStr(id)
Decode ==
  /\ OnlyCodec
  /\ pcCodec = "encoded"
  /\ str' = GetStr(id)
  /\ pcCodec' = "decoded"
  /\ UNCHANGED <<name, id>>

NextCodec ==
  \/ Encode
  \/ Decode

(***************************************************************************)
(* MarketData: the derived cache                                           *)
(***************************************************************************)
\* assert(id < 16) in SetDerived: the number of derived slots.
DerivedSlots == 16

\* Bound: the slots the calls address are 0..MaxSlot.
MaxSlot == 2

\* Bound: number of SetDerived calls in a run.
MaxSets == 3

Slots == {s \in 0..MaxSlot : s < DerivedSlots}

\* The MarketData records of the process.
Records == {"r1", "r2"}

\* The types T of GetDerived<T>.
Types == {"int", "double"}

\* A std::any: empty, or holding an object of type T (ptr = FALSE) or of type
\* const T* (ptr = TRUE); v is the T value held or pointed to.
EmptyAny == [has |-> FALSE, type |-> "", ptr |-> FALSE, v |-> 0]
AnyOf(T, isPtr, v) == [has |-> TRUE, type |-> T, ptr |-> isPtr, v |-> v]

\* The values handed to SetDerived.
AnyValues == {AnyOf("int", TRUE, 42), AnyOf("double", FALSE, 7)}

\* AnyVec* derived = nullptr
NoDerived == [alloc |-> FALSE, vec |-> <<>>]

\* std::vector<std::any>::resize(n): new elements are empty anys.
Resize(vec, n) ==
  IF n <= Len(vec) THEN SubSeq(vec, 1, n)
  ELSE vec \o [i \in 1..(n - Len(vec)) |-> EmptyAny]

\* SetDerived resizing on every call: resize(id) also when size() > id.
PrepareExact(d, slot) ==
  LET vec == IF d.alloc THEN d.vec ELSE <<>>
  IN [alloc |-> TRUE, vec |-> Resize(vec, slot)]

\* SetDerived up to its element write: allocate on first use, then
\* if (derived->size() <= id) derived->resize(id), which leaves size() = id.
Prepare(d, slot) ==
  LET vec == IF d.alloc THEN d.vec ELSE <<>>
  IN [alloc |-> TRUE, vec |-> IF Len(vec) <= slot THEN Resize(vec, slot) ELSE vec]

\* (*derived)[id] = value, for id inside the vector (elements are numbered from 0).
Store(d, value, slot) == [d EXCEPT !.vec[slot + 1] = value]

NoSet == [valid |-> FALSE, rec |-> "", slot |-> 0, value |-> EmptyAny, inside |-> FALSE]
Absent == [kind |-> "absent", v |-> 0]
Present(v) == [kind |-> "present", v |-> v]
Raised == [kind |-> "raised", v |-> 0]
NoGet == [valid |-> FALSE, rec |-> "", slot |-> 0, T |-> "", res |-> Absent]

\* std::any_cast<const T*>(const std::any&): the held object, when the any holds
\* an object of type const T*; throws std::bad_any_cast otherwise (also when the
\* any is empty or holds a T).
AnyCast(a, T) ==
  IF a.has /\ a.ptr /\ a.type = T THEN [threw |-> FALSE, v |-> a.v]
  ELSE [threw |-> TRUE, v |-> 0]

\* GetDerived without the size check: derived->at(id) throws std::out_of_range
\* for id >= size(), which the catch of std::bad_any_cast lets through.
GetDerivedUnchecked(d, slot, T) ==
  IF ~d.alloc THEN Absent
  ELSE IF slot >= Len(d.vec) THEN Raised
  ELSE LET c == AnyCast(d.vec[slot + 1], T)
       IN IF c.threw THEN Absent ELSE Present(c.v)

\* template <typename T> const T* GetDerived(size_t id) const
GetDerived(d, slot, T) ==
  IF ~d.alloc THEN Absent
  ELSE IF slot >= Len(d.vec) THEN Absent
  ELSE LET c == AnyCast(d.vec[slot + 1], T)
       IN IF c.threw THEN Absent ELSE Present(c.v)

DerivedInit ==
  /\ derived = [r \in Records |-> NoDerived]
  /\ crashed = FALSE
  /\ stray = {}
  /\ written = {}
  /\ nsets = 0
  /\ lastSet = NoSet
  /\ lastGet = NoGet

\* SetDerived between taking and releasing the lock, on record r.  The element
\* write (*derived)[id] = value is inside the vector only when id < size(); after
\* resize(id) it is not, and the write is undefined behaviour: it kills the
\* process or lands outside the vector (in its spare capacity or in the
\* allocator's memory), where no later size(), at() or operator[] inside the
\* vector sees it: a later resize overwrites spare capacity with empty anys.
WriteElement(r, value, slot) ==
  /\ LET d == Prepare(derived[r], slot)
         inside == slot < Len(d.vec)
     IN /\ lastSet' = [valid |-> TRUE, rec |-> r, slot |-> slot, value |-> value,
                       inside |-> inside]
        /\ \/ /\ inside
              /\ derived' = [derived EXCEPT ![r] = Store(d, value, slot)]
              /\ UNCHANGED <<crashed, stray>>
           \/ /\ ~inside
              /\ derived' = [derived EXCEPT ![r] = d]
              /\ stray' = stray \cup {<<r, slot>>}
              /\ UNCHANGED crashed
           \/ /\ ~inside
              /\ derived' = [derived EXCEPT ![r] = d]
              /\ crashed' = TRUE
              /\ UNCHANGED stray
  /\ nsets' = nsets + 1
  /\ written' = written \cup {<<r, slot>>}
  /\ lastGet' = NoGet

\* void SetDerived(std::any value, size_t id) on record r, with no other
\* thread in SetDerived or GetDerived.
SetDerived(r, value, slot) ==
  /\ OnlyDerived
  /\ ~crashed
  /\ nsets < MaxSets
  /\ slot < DerivedSlots
  /\ WriteElement(r, value, slot)

\* GetDerived<T>(id) on record r.
DoGetDerived(r, slot, T) ==
  /\ OnlyDerived
  /\ ~crashed
  /\ lastGet' = [valid |-> TRUE, rec |-> r, slot |-> slot, T |-> T,
                 res |-> GetDerived(derived[r], slot, T)]
  /\ UNCHANGED <<derived, crashed, stray, written, nsets, lastSet>>

NextDerived ==
  \/ \E r \in Records, value \in AnyValues, slot \in Slots : SetDerived(r, value, slot)
  \/ \E r \in Records, slot \in Slots, T \in Types : DoGetDerived(r, slot, T)

(***************************************************************************)
(* SetDerived and GetDerived called concurrently                           *)
(*                                                                         *)
(* Threads call SetDerived and GetDerived on the records.  A call takes    *)
(* the lock of its record (std::unique_lock for SetDerived,                *)
(* std::shared_lock for GetDerived), runs its body, and releases the lock  *)
(* when it returns.                                                        *)
(***************************************************************************)
\* Bound: number of SetDerived and GetDerived calls the threads make in a run.
MaxThreadOps == 3

Threads == {"p1", "p2", "p3"}

\* The arguments of the threads' calls.
ThreadSlots == {0, 1}
ThreadValues == {AnyOf("int", TRUE, 42)}
ThreadTypes == {"int"}

\* A non-static mutex_ member: one std::shared_mutex in each record.
MutexOfRecord(r) == r

\* static inline std::shared_mutex mutex_: the mutex a member function of
\* record r locks is the one object of the class, whatever r is.
MutexOf(r) == "MarketData::mutex_"

Mutexes == {MutexOf(r) : r \in Records}

\* std::shared_mutex: the thread that holds it exclusively ("" for none) and
\* the threads that hold it shared.
Unlocked == [writer |-> "", readers |-> {}]
CanLockUnique(m) == m.writer = "" /\ m.readers = {}
CanLockShared(m) == m.writer = ""

NoOp == [rec |-> "", slot |-> 0, value |-> EmptyAny, T |-> ""]

DerivedMTInit ==
  /\ mutex_ = [m \in Mutexes |-> Unlocked]
  /\ pcD = [t \in Threads |-> "idle"]
  /\ opD = [t \in Threads |-> NoOp]
  /\ nops = 0

\* Thread t calls SetDerived(value, slot) on record r: assert(id < 16).
CallSetDerived(t, r, value, slot) ==
  /\ OnlyDerivedMT
  /\ ~crashed
  /\ pcD[t] = "idle"
  /\ nops < MaxThreadOps
  /\ slot < DerivedSlots
  /\ nops' = nops + 1
  /\ pcD' = [pcD EXCEPT ![t] = "lockw"]
  /\ opD' = [opD EXCEPT ![t] = [rec |-> r, slot |-> slot, value |-> value, T |-> ""]]
  /\ UNCHANGED <<mutex_, derivedVars>>

\* std::unique_lock<std::shared_mutex> lock(mutex_): blocks until no thread
\* holds the mutex.
LockUnique(t) ==
  /\ OnlyDerivedMT
  /\ ~crashed
  /\ pcD[t] = "lockw"
  /\ CanLockUnique(mutex_[MutexOf(opD[t].rec)])
  /\ mutex_' = [mutex_ EXCEPT ![MutexOf(opD[t].rec)].writer = t]
  /\ pcD' = [pcD EXCEPT ![t] = "writing"]
  /\ UNCHANGED <<opD, nops, derivedVars>>

\* The body of SetDerived, and the release of the lock at its return.
WriteAndUnlock(t) ==
  /\ OnlyDerivedMT
  /\ ~crashed
  /\ pcD[t] = "writing"
  /\ WriteElement(opD[t].rec, opD[t].value, opD[t].slot)
  /\ mutex_' = [mutex_ EXCEPT ![MutexOf(opD[t].rec)].writer = ""]
  /\ pcD' = [pcD EXCEPT ![t] = "idle"]
  /\ opD' = [opD EXCEPT ![t] = NoOp]
  /\ UNCHANGED nops

\* Thread t calls GetDerived<T>(slot) on record r.
CallGetDerived(t, r, slot, T) ==
  /\ OnlyDerivedMT
  /\ ~crashed
  /\ pcD[t] = "idle"
  /\ nops < MaxThreadOps
  /\ nops' = nops + 1
  /\ pcD' = [pcD EXCEPT ![t] = "lockr"]
  /\ opD' = [opD EXCEPT ![t] = [rec |-> r, slot |-> slot, value |-> EmptyAny, T |-> T]]
  /\ UNCHANGED <<mutex_, derivedVars>>

\* std::shared_lock<std::shared_mutex> lock(mutex_): blocks while a thread
\* holds the mutex exclusively.
LockShared(t) ==
  /\ OnlyDerivedMT
  /\ ~crashed
  /\ pcD[t] = "lockr"
  /\ CanLockShared(mutex_[MutexOf(opD[t].rec)])
  /\ mutex_' = [mutex_ EXCEPT ![MutexOf(opD[t].rec)].readers = @ \cup {t}]
  /\ pcD' = [pcD EXCEPT ![t] = "reading"]
  /\ UNCHANGED <<opD, nops, derivedVars>>

\* The body of GetDerived, and the release of the lock at its return.
ReadAndUnlock(t) ==
  /\ OnlyDerivedMT
  /\ ~crashed
  /\ pcD[t] = "reading"
  /\ lastGet' = [valid |-> TRUE, rec |-> opD[t].rec, slot |-> opD[t].slot, T |-> opD[t].T,
                 res |-> GetDerived(derived[opD[t].rec], opD[t].slot, opD[t].T)]
  /\ mutex_' = [mutex_ EXCEPT ![MutexOf(opD[t].rec)].readers = @ \ {t}]
  /\ pcD' = [pcD EXCEPT ![t] = "idle"]
  /\ opD' = [opD EXCEPT ![t] = NoOp]
  /\ UNCHANGED <<nops, derived, crashed, stray, written, nsets, lastSet>>

NextDerivedMT ==
  \/ \E t \in Threads, r \in Records, value \in ThreadValues, slot \in ThreadSlots :
        CallSetDerived(t, r, value, slot)
  \/ \E t \in Threads : LockUnique(t)
  \/ \E t \in Threads : WriteAndUnlock(t)
  \/ \E t \in Threads, r \in Records, slot \in ThreadSlots, T \in ThreadTypes :
        CallGetDerived(t, r, slot, T)
  \/ \E t \in Threads : LockShared(t)
  \/ \E t \in Threads : ReadAndUnlock(t)

(***************************************************************************)
(* Limits, kRiskError and RiskManager                                      *)
(*                                                                         *)
(* risk.h declares RiskManager::Check and CheckMsgRate; their bodies are   *)
(* not in the header.  CheckLimits, CheckMsgRate and Check below follow    *)
(* section 4.5 of the specification.                                       *)
(***************************************************************************)
\* Bound: number of Check calls in a run.
MaxChecks == 2

\* Bound: number of seconds the clock advances in a run.
MaxTicks == 1

\* The execution contexts (threads) that submit orders.
Contexts == {"t1", "t2"}

SecurityIds == {1, 2}

\* A Limits struct whose order_qty member is initialised to 1.
DefaultLimitsQty1 ==
  [msg_rate |-> 0, msg_rate_per_security |-> 0, order_qty |-> 1, order_value |-> 0,
   value |-> 0, turnover |-> 0, total_value |-> 0, total_turnover |-> 0]

\* struct Limits: every field defaults to 0.
DefaultLimits ==
  [msg_rate |-> 0, msg_rate_per_security |-> 0, order_qty |-> 0, order_value |-> 0,
   value |-> 0, turnover |-> 0, total_value |-> 0, total_turnover |-> 0]


LimitFields == DOMAIN DefaultLimits

AllZero(l) == \A f \in LimitFields : l[f] = 0

\* The limit configurations the environment installs: the defaults, one
\* field bounded at 2, every field bounded at 2.
LimitProfiles ==
  {DefaultLimits} \cup {[DefaultLimits EXCEPT ![f] = 2] : f \in LimitFields}
    \cup {[f \in LimitFields |-> 2]}

\* The attributes of an order that Check reads: security, quantity, notional value.
Orders ==
  {[sec |-> 1, qty |-> 1, value |-> 1], [sec |-> 1, qty |-> 3, value |-> 3],
   [sec |-> 2, qty |-> 3, value |-> 1]}

\* The exposure the order would lead to: per-security value and turnover,
\* total value and turnover (kept by the order-management layer).
Exposures ==
  {[value |-> 1, turnover |-> 1, total_value |-> 1, total_turnover |-> 1],
   [value |-> 3, turnover |-> 3, total_value |-> 3, total_turnover |-> 3]}

\* inline thread_local std::string kRiskError: one string per thread, empty
\* at thread start; an assignment changes the calling thread's string only.
RiskErrorInit == [c \in Contexts |-> ""]

\* kRiskError without thread_local: one string that every thread reads and writes.
SetRiskErrorGlobal(err, ctx, msg) == [c \in Contexts |-> msg]

SetRiskError(err, ctx, msg) == [err EXCEPT ![ctx] = msg]

\* The first limit the order violates, in the order of section 4.5, or "".
\* A limit of 0 is disabled.
Exceeds(x, bound) == bound # 0 /\ x > bound

\* CheckLimits without the quantity test.
CheckLimitsNoQty(l, ord, pos) ==
  IF Exceeds(ord.value, l.order_value) THEN "order_value"
  ELSE IF Exceeds(pos.value, l.value) THEN "value"
  ELSE IF Exceeds(pos.turnover, l.turnover) THEN "turnover"
  ELSE IF Exceeds(pos.total_value, l.total_value) THEN "total_value"
  ELSE IF Exceeds(pos.total_turnover, l.total_turnover) THEN "total_turnover"
  ELSE ""

CheckLimits(l, ord, pos) ==
  IF Exceeds(ord.qty, l.order_qty) THEN "order_qty"
  ELSE IF Exceeds(ord.value, l.order_value) THEN "order_value"
  ELSE IF Exceeds(pos.value, l.value) THEN "value"
  ELSE IF Exceeds(pos.turnover, l.turnover) THEN "turnover"
  ELSE IF Exceeds(pos.total_value, l.total_value) THEN "total_value"
  ELSE IF Exceeds(pos.total_turnover, l.total_turnover) THEN "total_turnover"
  ELSE ""

\* bool CheckMsgRate(const Order&): the message-rate limit that one more
\* message in second tm would exceed, or "".
CheckMsgRate(l, ord, tm, mt, st) ==
  IF Exceeds(ThrottleRead(mt, tm) + 1, l.msg_rate) THEN "msg_rate"
  ELSE IF Exceeds(ThrottleRead(st[ord.sec], tm) + 1, l.msg_rate_per_security)
         THEN "msg_rate_per_security"
  ELSE ""

NoCheck ==
  [valid |-> FALSE, ctx |-> "", ord |-> [sec |-> 0, qty |-> 0, value |-> 0],
   pos |-> [value |-> 0, turnover |-> 0, total_value |-> 0, total_turnover |-> 0],
   result |-> FALSE]

RiskInit ==
  /\ disabled_ = FALSE
  /\ limits = DefaultLimits
  /\ kRiskError = RiskErrorInit
  /\ now = 100
  /\ msgThrottle = ThrottleNew
  /\ secThrottle = [i \in SecurityIds |-> ThrottleNew]
  /\ lastCheck = NoCheck
  /\ nchecks = 0
  /\ checksInSec = 0
  /\ disableCalled = FALSE
  /\ configured = FALSE

\* Disable() that flips the flag instead of setting it.
DisableToggle ==
  /\ OnlyRisk
  /\ disabled_' = ~disabled_
  /\ disableCalled' = TRUE
  /\ lastCheck' = NoCheck
  /\ UNCHANGED <<limits, kRiskError, now, msgThrottle, secThrottle, nchecks,
                 checksInSec, configured>>

\* void Disable() { disabled_ = true; }
Disable ==
  /\ OnlyRisk
  /\ disabled_' = TRUE
  /\ disableCalled' = TRUE
  /\ lastCheck' = NoCheck
  /\ UNCHANGED <<limits, kRiskError, now, msgThrottle, secThrottle, nchecks,
                 checksInSec, configured>>

\* The environment installs limits (the fields of Limits are plain public members).
Configure(l) ==
  /\ OnlyRisk
  /\ l # limits
  /\ limits' = l
  /\ configured' = TRUE
  /\ lastCheck' = NoCheck
  /\ UNCHANGED <<disabled_, kRiskError, now, msgThrottle, secThrottle, nchecks,
                 checksInSec, disableCalled>>

\* The wall clock, which starts the run at second 100, reaches the next second.
Tick ==
  /\ OnlyRisk
  /\ now < 100 + MaxTicks
  /\ now' = now + 1
  /\ checksInSec' = 0
  /\ lastCheck' = NoCheck
  /\ UNCHANGED <<disabled_, limits, kRiskError, msgThrottle, secThrottle, nchecks,
                 disableCalled, configured>>

\* bool Check(const Order& ord), called on execution context ctx.
Check(ctx, ord, pos) ==
  /\ OnlyRisk
  /\ nchecks < MaxChecks
  /\ nchecks' = nchecks + 1
  /\ checksInSec' = checksInSec + 1
  /\ LET why == IF disabled_ THEN ""
                ELSE IF CheckLimits(limits, ord, pos) # "" THEN CheckLimits(limits, ord, pos)
                ELSE CheckMsgRate(limits, ord, now, msgThrottle, secThrottle)
     IN /\ lastCheck' = [valid |-> TRUE, ctx |-> ctx, ord |-> ord, pos |-> pos,
                         result |-> (why = "")]
        /\ kRiskError' = IF why = "" THEN kRiskError ELSE SetRiskError(kRiskError, ctx, why)
        /\ IF disabled_ \/ why # ""
             THEN UNCHANGED <<msgThrottle, secThrottle>>
             ELSE /\ msgThrottle' = ThrottleUpdate(msgThrottle, now)
                  /\ secThrottle' =
                       [secThrottle EXCEPT ![ord.sec] = ThrottleUpdate(@, now)]
  /\ UNCHANGED <<disabled_, limits, now, disableCalled, configured>>

NextRisk ==
  \/ Disable
  \/ \E l \in LimitProfiles : Configure(l)
  \/ Tick
  \/ \E ctx \in Contexts, ord \in Orders, pos \in Exposures : Check(ctx, ord, pos)

(***************************************************************************)
(* Throttle::Update called concurrently                                    *)
(*                                                                         *)
(* Order-submission threads call Update on one Throttle.  A call is run    *)
(* statement by statement: the test tm2 != tm, then either n = 0 and       *)
(* tm2 = tm, or n++.  n is a tbb::atomic<int>: n = 0 is an atomic store    *)
(* and n++ an atomic fetch-and-add.  tm is a plain int that every call     *)
(* reads and no statement writes, so its reads do not race.                *)
(***************************************************************************)
\* Bound: number of Update calls the threads make in a run.
MaxThreadUpdates == 3

\* n++ as a load followed by a store, as on a plain int.
IncrementLoadStore(t) ==
  /\ OnlyThrottleMT
  /\ \/ /\ pcU[t] = "inc"
        /\ fetched' = [fetched EXCEPT ![t] = th.n]
        /\ pcU' = [pcU EXCEPT ![t] = "store"]
        /\ UNCHANGED <<th, doneU>>
     \/ /\ pcU[t] = "store"
        /\ th' = [th EXCEPT !.n = fetched[t] + 1]
        /\ pcU' = [pcU EXCEPT ![t] = "idle"]
        /\ doneU' = doneU + 1
        /\ UNCHANGED fetched
  /\ UNCHANGED <<argU, startedU, sameOnly, overlapped>>

ThrottleMTInit ==
  /\ pcU = [t \in Contexts |-> "idle"]
  /\ argU = [t \in Contexts |-> 0]
  /\ fetched = [t \in Contexts |-> 0]
  /\ startedU = 0
  /\ doneU = 0
  /\ sameOnly = TRUE
  /\ overlapped = FALSE

\* Thread t calls Update(tm2).
CallUpdate(t, tm2) ==
  /\ OnlyThrottleMT
  /\ pcU[t] = "idle"
  /\ startedU < MaxThreadUpdates
  /\ startedU' = startedU + 1
  /\ pcU' = [pcU EXCEPT ![t] = "test"]
  /\ argU' = [argU EXCEPT ![t] = tm2]
  /\ sameOnly' = (sameOnly /\ tm2 = th.tm)
  /\ overlapped' = (overlapped \/ \E u \in Contexts : pcU[u] # "idle")
  /\ UNCHANGED <<th, fetched, doneU>>

\* if (tm2 != tm)
TestSecond(t) ==
  /\ OnlyThrottleMT
  /\ pcU[t] = "test"
  /\ pcU' = [pcU EXCEPT ![t] = IF argU[t] # th.tm THEN "reset" ELSE "inc"]
  /\ UNCHANGED <<th, argU, fetched, startedU, doneU, sameOnly, overlapped>>

\* n = 0;
ResetCount(t) ==
  /\ OnlyThrottleMT
  /\ pcU[t] = "reset"
  /\ th' = [th EXCEPT !.n = 0]
  /\ pcU' = [pcU EXCEPT ![t] = "assign"]
  /\ UNCHANGED <<argU, fetched, startedU, doneU, sameOnly, overlapped>>

\* tm2 = tm; and the call returns.
AssignParameter(t) ==
  /\ OnlyThrottleMT
  /\ pcU[t] = "assign"
  /\ argU' = [argU EXCEPT ![t] = th.tm]
  /\ pcU' = [pcU EXCEPT ![t] = "idle"]
  /\ doneU' = doneU + 1
  /\ UNCHANGED <<th, fetched, startedU, sameOnly, overlapped>>

\* n++; and the call returns.
Increment(t) ==
  /\ OnlyThrottleMT
  /\ pcU[t] = "inc"
  /\ fetched' = [fetched EXCEPT ![t] = th.n]
  /\ th' = [th EXCEPT !.n = th.n + 1]
  /\ pcU' = [pcU EXCEPT ![t] = "idle"]
  /\ doneU' = doneU + 1
  /\ UNCHANGED <<argU, startedU, sameOnly, overlapped>>

NextThrottleMT ==
  \/ \E t \in Contexts, tm2 \in Seconds : CallUpdate(t, tm2)
  \/ \E t \in Contexts : TestSecond(t)
  \/ \E t \in Contexts : ResetCount(t)
  \/ \E t \in Contexts : AssignParameter(t)
  \/ \E t \in Contexts : Increment(t)

(***************************************************************************)
(* MarketDataAdapter and MarketDataManager                                 *)
(*                                                                         *)
(* market_data.h declares the manager's and the adapter's operations and   *)
(* their state; the bodies are not in the header.  Add, GetRoute,          *)
(* Subscribe, Get, GetLite and the Update family below follow sections 4.2 *)
(* to 4.4 of the specification.  Where the specification leaves a choice   *)
(* open (which adapter becomes the default, the tie-break between two      *)
(* adapters of one route) the model takes every choice.                    *)
(***************************************************************************)
\* static inline const size_t kDepthSize = 5
kDepthSize == 5

\* Bound: number of Get, GetLite and Subscribe calls on the manager in a run.
MaxCalls == 2

\* Bound: number of record updates in a run.
MaxMdUpdates == 1

Adapters == {"a1", "a2"}

\* Non-zero DataSrc identifiers; DataSrc 0 is "unspecified".
Sources == {1, 2}

Exchanges == {"X1", "X2"}

\* Security: its id and its exchange.
Securities == {[id |-> 1, exchange |-> "X1"], [id |-> 2, exchange |-> "X2"]}

\* struct Quote, struct Trade and struct MarketData as constructed.
NewQuote == [ask_price |-> 0, bid_price |-> 0, ask_size |-> 0, bid_size |-> 0]
NewTrade ==
  [qty |-> 0, open |-> 0, high |-> 0, low |-> 0, close |-> 0, vwap |-> 0, volume |-> 0]
NewMarketData ==
  [tm |-> 0, trade |-> NewTrade, depth |-> [i \in 1..kDepthSize |-> NewQuote]]

\* The quotes and depth levels the adapters push.
Quotes == {[ask_price |-> 11, bid_price |-> 10, ask_size |-> 5, bid_size |-> 6]}
Levels == {kDepthSize - 1}

NoStore == [present |-> FALSE, recs |-> [i \in SecurityIds |-> 0]]

\* md_of_src_[src][sid]: operator[] of both maps, which inserts a
\* default-constructed element when the key is new and returns a reference
\* to the element in the map.  Neither map ever erases or moves an element.
Element(store, hp, src, sid) ==
  IF store[src].recs[sid] # 0
    THEN [store |-> [store EXCEPT ![src].present = TRUE], heap |-> hp,
          addr |-> store[src].recs[sid]]
    ELSE [store |-> [store EXCEPT ![src].present = TRUE, ![src].recs[sid] = Len(hp) + 1],
          heap |-> Append(hp, NewMarketData), addr |-> Len(hp) + 1]

MDInit ==
  /\ added = {}
  /\ src_ = [a \in Adapters |-> 0]
  /\ md_ = [a \in Adapters |-> 0]
  /\ default_ = NullPtr
  /\ routes_ = [k \in Sources \X Exchanges |-> <<>>]
  /\ md_of_src_ = [s \in Sources |-> NoStore]
  /\ heap = <<>>
  /\ refs = {}
  /\ subscribed = [a \in Adapters |-> 0]
  /\ truth = [k \in Sources \X SecurityIds |-> NewMarketData]
  /\ nupdates = 0
  /\ ncalls = 0
  /\ usedGet = FALSE

\* The exchanges and the sources each adapter may be configured with.
Markets(a) == IF a = "a1" THEN {"X1"} ELSE {"X1", "X2"}
AdapterSources(a) == IF a = "a1" THEN {1} ELSE Sources

\* void Add(MarketDataAdapter* adapter): the adapter is configured with
\* source src and the exchanges Markets(adapter).
Add(a, src, asDefault) ==
  /\ OnlyMD
  /\ a \notin added
  /\ added' = added \cup {a}
  /\ src_' = [src_ EXCEPT ![a] = src]
  /\ md_' = [md_ EXCEPT ![a] = src]
  /\ md_of_src_' = [md_of_src_ EXCEPT ![src].present = TRUE]
  /\ routes_' = [k \in Sources \X Exchanges |->
                  IF k[1] = src /\ k[2] \in Markets(a) THEN Append(routes_[k], a)
                  ELSE routes_[k]]
  /\ default_' = IF default_ = NullPtr \/ asDefault THEN a ELSE default_
  /\ UNCHANGED <<heap, refs, subscribed, truth, nupdates, ncalls, usedGet>>

\* The record after the quote update of section 4.2 made at time t: the
\* quote of depth level `level` set to q, the timestamp stamped.
Changed(rec, q, level, t) == [rec EXCEPT !.depth[level + 1] = q, !.tm = t]

\* void Update(Security::IdType id, const MarketData::Quote& q, uint32_t level)
\* called by adapter a: the write to its record of the security, (*md_)[id].
\* (The other members of the Update family write other fields of the same
\* record in the same way.)
UpdateQuote(a, sid, q, level) ==
  /\ OnlyMD
  /\ a \in added
  /\ nupdates < MaxMdUpdates
  /\ level < kDepthSize
  /\ LET e == Element(md_of_src_, heap, md_[a], sid)
     IN /\ md_of_src_' = e.store
        /\ heap' = [e.heap EXCEPT ![e.addr] = Changed(@, q, level, nupdates + 1)]
        /\ truth' = [truth EXCEPT ![<<md_[a], sid>>] = Changed(@, q, level, nupdates + 1)]
  /\ nupdates' = nupdates + 1
  /\ UNCHANGED <<added, src_, md_, default_, routes_, refs, subscribed, ncalls, usedGet>>

\* The source a request for src means: src itself, or the default adapter's
\* source when src is 0.
Resolve(src) == IF src # 0 THEN src ELSE src_[default_]
Resolvable(src) == src # 0 \/ default_ # NullPtr

\* MarketDataAdapter* GetRoute(const Security& sec, DataSrc::IdType src): the
\* adapters that may be returned; none when the route is absent.
GetRoute(sec, src) ==
  IF src = 0 THEN {default_} \ {NullPtr}
  ELSE {routes_[<<src, sec.exchange>>][i] : i \in DOMAIN routes_[<<src, sec.exchange>>]}

\* const MarketData& GetLite(Security::IdType id, DataSrc::IdType src) that
\* returns a copy of the record.
GetLiteCopy(sid, src) ==
  /\ OnlyMD
  /\ ncalls < MaxCalls
  /\ ncalls' = ncalls + 1
  /\ Resolvable(src)
  /\ LET e == Element(md_of_src_, heap, Resolve(src), sid)
     IN /\ md_of_src_' = e.store
        /\ heap' = Append(e.heap, e.heap[e.addr])
        /\ refs' = refs \cup {[src |-> Resolve(src), sec |-> sid, addr |-> Len(e.heap) + 1,
                              upd |-> nupdates]}
  /\ UNCHANGED <<added, src_, md_, default_, routes_, subscribed, truth, nupdates, usedGet>>

\* GetLite that asks the route's adapter to subscribe.
GetLiteSubscribing(sid, src) ==
  /\ OnlyMD
  /\ ncalls < MaxCalls
  /\ ncalls' = ncalls + 1
  /\ Resolvable(src)
  /\ LET e == Element(md_of_src_, heap, Resolve(src), sid)
     IN /\ md_of_src_' = e.store
        /\ heap' = e.heap
        /\ refs' = refs \cup {[src |-> Resolve(src), sec |-> sid, addr |-> e.addr,
                              upd |-> nupdates]}
  /\ subscribed' = [a \in Adapters |->
                     IF a \in added /\ src_[a] = Resolve(src) THEN subscribed[a] + 1
                     ELSE subscribed[a]]
  /\ UNCHANGED <<added, src_, md_, default_, routes_, truth, nupdates, usedGet>>

\* const MarketData& GetLite(Security::IdType id, DataSrc::IdType src = 0):
\* the reference to the record in the store, without subscription.
GetLite(sid, src) ==
  /\ OnlyMD
  /\ ncalls < MaxCalls
  /\ ncalls' = ncalls + 1
  /\ Resolvable(src)
  /\ LET e == Element(md_of_src_, heap, Resolve(src), sid)
     IN /\ md_of_src_' = e.store
        /\ heap' = e.heap
        /\ refs' = refs \cup {[src |-> Resolve(src), sec |-> sid, addr |-> e.addr,
                              upd |-> nupdates]}
  /\ UNCHANGED <<added, src_, md_, default_, routes_, subscribed, truth, nupdates, usedGet>>

\* MarketDataAdapter* Subscribe(const Security& sec, DataSrc::IdType src),
\* returning adapter a, or no adapter when the route is absent.
SubscribeVia(sec, src, a) ==
  /\ a \in GetRoute(sec, src)
  /\ subscribed' = [subscribed EXCEPT ![a] = @ + 1]
  /\ usedGet' = TRUE

SubscribeAbsent(sec, src) ==
  /\ GetRoute(sec, src) = {}
  /\ usedGet' = TRUE
  /\ UNCHANGED subscribed

Subscribe(sec, src) ==
  /\ OnlyMD
  /\ ncalls < MaxCalls
  /\ ncalls' = ncalls + 1
  /\ \/ \E a \in Adapters : SubscribeVia(sec, src, a)
     \/ SubscribeAbsent(sec, src)
  /\ UNCHANGED <<added, src_, md_, default_, routes_, md_of_src_, heap, refs, truth,
                 nupdates>>

\* const MarketData& Get(const Security& sec, DataSrc::IdType src = 0):
\* Subscribe(sec, src), then the reference to the record in the store of the
\* adapter's source (of the requested source when the route is absent).
Get(sec, src) ==
  /\ OnlyMD
  /\ ncalls < MaxCalls
  /\ ncalls' = ncalls + 1
  /\ Resolvable(src)
  /\ \/ \E a \in Adapters :
          /\ SubscribeVia(sec, src, a)
          /\ LET e == Element(md_of_src_, heap, md_[a], sec.id)
             IN /\ md_of_src_' = e.store
                /\ heap' = e.heap
                /\ refs' = refs \cup {[src |-> md_[a], sec |-> sec.id, addr |-> e.addr,
                              upd |-> nupdates]}
     \/ /\ SubscribeAbsent(sec, src)
        /\ LET e == Element(md_of_src_, heap, Resolve(src), sec.id)
           IN /\ md_of_src_' = e.store
              /\ heap' = e.heap
              /\ refs' = refs \cup {[src |-> Resolve(src), sec |-> sec.id, addr |-> e.addr,
                              upd |-> nupdates]}
  /\ UNCHANGED <<added, src_, md_, default_, routes_, truth, nupdates>>

NextMD ==
  \/ \E a \in Adapters : \E src \in AdapterSources(a), asDefault \in BOOLEAN :
        Add(a, src, asDefault)
  \/ \E a \in Adapters, sid \in SecurityIds, q \in Quotes, level \in Levels :
        UpdateQuote(a, sid, q, level)
  \/ \E sid \in SecurityIds, src \in Sources \cup {0} : GetLite(sid, src)
  \/ \E sec \in Securities, src \in Sources \cup {0} : Subscribe(sec, src)
  \/ \E sec \in Securities, src \in Sources \cup {0} : Get(sec, src)

(***************************************************************************)
(* Quote and Trade: the change tests                                       *)
(***************************************************************************)
\* A double is modelled by an integer; a negative integer stands for NaN (the
\* prices compared here are otherwise positive).  x != y on doubles is the
\* IEEE comparison: true when either side is NaN, also for a NaN and itself.
IsNaN(x) == x < 0
DoubleNe(x, y) == IsNaN(x) \/ IsNaN(y) \/ x # y

\* The doubles, the non-NaN doubles and the integers (Qty, Volume) compared.
CmpDoubles == {-1, 10, 11}
CmpFinite == {10, 11}
CmpInts == {5, 6}

CmpQuotes ==
  [ask_price : CmpDoubles, bid_price : CmpDoubles, ask_size : CmpInts, bid_size : CmpInts]
CmpTrades ==
  [qty : CmpInts, open : CmpFinite, high : CmpFinite, low : CmpFinite,
   close : CmpDoubles, vwap : CmpFinite, volume : CmpInts]

\* Quote::operator!= without the test of bid_size.
QuoteNeNoBidSize(a, b) ==
  \/ DoubleNe(a.ask_price, b.ask_price)
  \/ a.ask_size # b.ask_size
  \/ DoubleNe(a.bid_price, b.bid_price)

\* bool Quote::operator!=(const Quote& b) const
QuoteNe(a, b) ==
  \/ DoubleNe(a.ask_price, b.ask_price)
  \/ a.ask_size # b.ask_size
  \/ DoubleNe(a.bid_price, b.bid_price)
  \/ a.bid_size # b.bid_size

\* bool Quote::operator==(const Quote& b) const { return !(*this != b); }
QuoteEq(a, b) == ~QuoteNe(a, b)

\* Trade::operator!= that also tests open.
TradeNeWithOpen(a, b) ==
  \/ a.volume # b.volume
  \/ DoubleNe(a.close, b.close)
  \/ DoubleNe(a.high, b.high)
  \/ DoubleNe(a.low, b.low)
  \/ DoubleNe(a.open, b.open)

\* bool Trade::operator!=(const Trade& b) const
TradeNe(a, b) ==
  \/ a.volume # b.volume
  \/ DoubleNe(a.close, b.close)
  \/ DoubleNe(a.high, b.high)
  \/ DoubleNe(a.low, b.low)

NoQuoteCmp == [valid |-> FALSE, a |-> NewQuote, b |-> NewQuote, ne |-> FALSE, eq |-> FALSE]
NoTradeCmp == [valid |-> FALSE, a |-> NewTrade, b |-> NewTrade, ne |-> FALSE]

CompareInit ==
  /\ lastQuoteCmp = NoQuoteCmp
  /\ lastTradeCmp = NoTradeCmp

\* No comparison has been made yet.
CompareIdle == ~lastQuoteCmp.valid /\ ~lastTradeCmp.valid

\* a != b and a == b evaluated on two Quotes.
CompareQuotes ==
  /\ OnlyCompare
  /\ CompareIdle
  /\ \E a \in CmpQuotes, b \in CmpQuotes :
       lastQuoteCmp' = [valid |-> TRUE, a |-> a, b |-> b, ne |-> QuoteNe(a, b),
                        eq |-> QuoteEq(a, b)]
  /\ lastTradeCmp' = NoTradeCmp

\* a != b evaluated on two Trades.
CompareTrades ==
  /\ OnlyCompare
  /\ CompareIdle
  /\ \E a \in CmpTrades, b \in CmpTrades :
       lastTradeCmp' = [valid |-> TRUE, a |-> a, b |-> b, ne |-> TradeNe(a, b)]
  /\ lastQuoteCmp' = NoQuoteCmp

NextCompare ==
  \/ CompareQuotes
  \/ CompareTrades

(***************************************************************************)
(* Specifications                                                          *)
(***************************************************************************)
InitThrottle ==
  ThrottleInit /\ CodecIdle /\ DerivedInit /\ RiskInit /\ MDInit /\ CompareInit
    /\ ThrottleMTInit /\ DerivedMTInit
InitCodec ==
  ThrottleInit /\ CodecInit /\ DerivedInit /\ RiskInit /\ MDInit /\ CompareInit
    /\ ThrottleMTInit /\ DerivedMTInit
InitDerived ==
  ThrottleInit /\ CodecIdle /\ DerivedInit /\ RiskInit /\ MDInit /\ CompareInit
    /\ ThrottleMTInit /\ DerivedMTInit
InitRisk ==
  ThrottleInit /\ CodecIdle /\ DerivedInit /\ RiskInit /\ MDInit /\ CompareInit
    /\ ThrottleMTInit /\ DerivedMTInit
InitMD ==
  ThrottleInit /\ CodecIdle /\ DerivedInit /\ RiskInit /\ MDInit /\ CompareInit
    /\ ThrottleMTInit /\ DerivedMTInit
InitCompare ==
  ThrottleInit /\ CodecIdle /\ DerivedInit /\ RiskInit /\ MDInit /\ CompareInit
    /\ ThrottleMTInit /\ DerivedMTInit
InitThrottleMT ==
  ThrottleInit /\ CodecIdle /\ DerivedInit /\ RiskInit /\ MDInit /\ CompareInit
    /\ ThrottleMTInit /\ DerivedMTInit
InitDerivedMT ==
  ThrottleInit /\ CodecIdle /\ DerivedInit /\ RiskInit /\ MDInit /\ CompareInit
    /\ ThrottleMTInit /\ DerivedMTInit

SpecThrottle == InitThrottle /\ [][NextThrottle]_vars
SpecCodec == InitCodec /\ [][NextCodec]_vars
SpecDerived == InitDerived /\ [][NextDerived]_vars
SpecRisk == InitRisk /\ [][NextRisk]_vars
SpecMD == InitMD /\ [][NextMD]_vars
SpecCompare == InitCompare /\ [][NextCompare]_vars
SpecThrottleMT == InitThrottleMT /\ [][NextThrottleMT]_vars
SpecDerivedMT == InitDerivedMT /\ [][NextDerivedMT]_vars

(***************************************************************************)
(* Properties                                                              *)
(***************************************************************************)

\* C1: after k >= 1 consecutive Update(s) calls for the same second s, a read
\* of the counter at second s returns k (for updates [100,100,100,101,101]:
\* 3 at second 100 after the third, 2 at second 101 after the fifth).
C1_ConsecutiveUpdatesCounted ==
  (rd.valid /\ updates # <<>> /\ rd.tm = Last(updates)) => rd.val = RunLen(updates)

\* C2: SetDerived(v, slot) with v of type T, followed by GetDerived<T>(slot) on
\* the same record with no write in between, returns a present result equal to v.
C2_SetThenGetReturnsValue ==
  (/\ lastSet.valid
   /\ lastGet.valid
   /\ lastGet.rec = lastSet.rec
   /\ lastGet.slot = lastSet.slot
   /\ ~lastSet.value.ptr
   /\ lastGet.T = lastSet.value.type)
  => lastGet.res = Present(lastSet.value.v)

\* The cases of C3 for a GetDerived<T>(slot) call on record r.
NeverAllocated(r) == ~derived[r].alloc
NeverWritten(r, slot) == <<r, slot>> \notin written
HoldsOtherType(r, slot, T) ==
  /\ derived[r].alloc
  /\ slot < Len(derived[r].vec)
  /\ derived[r].vec[slot + 1].has
  /\ derived[r].vec[slot + 1].type # T

\* C3: GetDerived<T>(slot) returns absent, and does not raise, when the
\* record's derived cache was never allocated, when the slot was never written
\* (below or beyond the current size), and when the slot holds a value whose
\* type does not match T.
C3_GetDerivedAbsentNeverRaises ==
  (/\ lastGet.valid
   /\ \/ NeverAllocated(lastGet.rec)
      \/ NeverWritten(lastGet.rec, lastGet.slot)
      \/ HoldsOtherType(lastGet.rec, lastGet.slot, lastGet.T))
  => lastGet.res = Absent

\* A read of a slot that holds a value of another type was answered absent,
\* in a state where some vector also has a never-written slot inside it.
C3_Witness ==
  /\ lastGet.valid
  /\ lastGet.res = Absent
  /\ HoldsOtherType(lastGet.rec, lastGet.slot, lastGet.T)
  /\ \E r \in Records, slot \in Slots :
       /\ derived[r].alloc
       /\ NeverWritten(r, slot)
       /\ slot < Len(derived[r].vec)

ShortName(n) == ~n.null /\ Len(n.s) >= 1 /\ Len(n.s) <= 4

\* C4: for every name of 1 to 4 ASCII characters GetStr(GetId(name)) = name,
\* so GetId is injective on such names; GetId of the empty or absent name is
\* 0, and GetStr(0) is the empty string.
C4_RoundTrip ==
  /\ (pcCodec = "decoded" /\ ShortName(name)) => str = name.s
  /\ (pcCodec # "start" /\ ShortName(name))
       => \A other \in Names : (ShortName(other) /\ GetId(other) = id) => other = name
  /\ (pcCodec # "start" /\ (name.null \/ name.s = <<>>)) => id = 0
  /\ (pcCodec = "decoded" /\ id = 0) => str = <<>>

\* A four-character name that came back from GetStr(GetId(name)).
C4_Witness == pcCodec = "decoded" /\ ~name.null /\ Len(name.s) = 4 /\ str = name.s

\* C5: for a name longer than 4 ASCII characters, GetId(name) is GetId of the
\* name's first four characters: the little-endian packing of those four, with
\* no bit of the fifth and later characters in it.
C5_LongNameTruncates ==
  (pcCodec # "start" /\ ~name.null /\ Len(name.s) > 4)
  => /\ id = GetId(CString(SubSeq(name.s, 1, 4)))
     /\ id = name.s[1] + 256 * name.s[2] + 65536 * name.s[3] + 16777216 * name.s[4]

\* A five-character name has been encoded, its fifth character not its first.
C5_Witness ==
  /\ pcCodec = "encoded"
  /\ ~name.null
  /\ Len(name.s) = 5
  /\ name.s[5] # name.s[1]
  /\ id = GetId(CString(SubSeq(name.s, 1, 4)))

\* C6: once Disable() has been called the disabled flag stays set, and every
\* later Check returns true whatever the limits and the throttles are.
C6_DisableIsPermanent ==
  disableCalled => (disabled_ /\ (lastCheck.valid => lastCheck.result))

\* After Disable(), an order above the configured order_qty bound was accepted.
C6_Witness ==
  /\ disableCalled
  /\ lastCheck.valid
  /\ limits.order_qty # 0
  /\ lastCheck.ord.qty > limits.order_qty
  /\ lastCheck.result

\* C7: every field of Limits defaults to 0, and with every field at 0 Check
\* accepts every order, after any number of earlier checks in the same second.
C7_ZeroLimitsAcceptAll ==
  /\ ~configured => AllZero(limits)
  /\ (lastCheck.valid /\ AllZero(limits)) => lastCheck.result

\* The second check of a second, not disabled, all limits 0, accepts a large order.
C7_Witness ==
  /\ lastCheck.valid
  /\ ~disabled_
  /\ AllZero(limits)
  /\ checksInSec >= 2
  /\ lastCheck.ord.qty = 3
  /\ lastCheck.result

\* C8: not disabled and order_qty non-zero: Check returns false for every order
\* whose quantity exceeds order_qty, and leaves a non-empty diagnostic in the
\* calling context's kRiskError.
C8_QtyOverLimitRejected ==
  (/\ lastCheck.valid
   /\ ~disabled_
   /\ limits.order_qty # 0
   /\ lastCheck.ord.qty > limits.order_qty)
  => (~lastCheck.result /\ kRiskError[lastCheck.ctx] # "")

\* An order of quantity 3 was rejected under order_qty = 2, with a diagnostic.
C8_Witness ==
  /\ lastCheck.valid
  /\ ~disabled_
  /\ limits.order_qty = 2
  /\ lastCheck.ord.qty = 3
  /\ ~lastCheck.result
  /\ kRiskError[lastCheck.ctx] = "order_qty"

\* C9: the references Get and GetLite return for one (security, source) pair
\* denote the same record, the one in the store: what the source's adapters
\* have written to the pair is what every such reference reads.
C9_RecordsShared ==
  /\ \A r1 \in refs, r2 \in refs :
       (r1.src = r2.src /\ r1.sec = r2.sec) => r1.addr = r2.addr
  /\ \A r \in refs :
       /\ r.addr = md_of_src_[r.src].recs[r.sec]
       /\ heap[r.addr] = truth[<<r.src, r.sec>>]

\* Two calls returned references for one pair, and the pair's adapter updated
\* the record after the first call and before the second.
C9_Witness ==
  \E r1 \in refs, r2 \in refs :
    /\ r1.upd < r2.upd
    /\ r1.src = r2.src
    /\ r1.sec = r2.sec
    /\ truth[<<r1.src, r1.sec>>].tm > r1.upd
    /\ truth[<<r1.src, r1.sec>>].tm <= r2.upd
    /\ heap[r1.addr] = truth[<<r1.src, r1.sec>>]

\* C10: in a run of registrations, record updates and GetLite calls only (no
\* Get, no Subscribe on the manager), no adapter's Subscribe is invoked.
C10_GetLiteNeverSubscribes ==
  ~usedGet => \A a \in Adapters : subscribed[a] = 0

\* GetLite has been called on the record of a registered adapter's source,
\* after an update, with no Get or Subscribe in the run.
C10_Witness ==
  /\ ~usedGet
  /\ nupdates > 0
  /\ \E r \in refs : \E a \in added : src_[a] = r.src

\* The fields of a Quote, and the fields of a Trade its change test reads.
QuoteFields == {"ask_price", "bid_price", "ask_size", "bid_size"}
TradeChangeFields == {"volume", "close", "high", "low"}

\* C11: Quote equality is the exact negation of inequality, and a != b holds
\* exactly when at least one of ask price, bid price, ask size and bid size
\* differs between a and b (a field differs when != on it is true).
C11_QuoteEqNegatesNe ==
  lastQuoteCmp.valid =>
    /\ lastQuoteCmp.eq <=> ~lastQuoteCmp.ne
    /\ lastQuoteCmp.ne <=>
         \E f \in QuoteFields : DoubleNe(lastQuoteCmp.a[f], lastQuoteCmp.b[f])

\* Two quotes that differ in bid size only were compared: unequal, not equal.
C11_Witness ==
  /\ lastQuoteCmp.valid
  /\ \A f \in QuoteFields \ {"bid_size"} : lastQuoteCmp.a[f] = lastQuoteCmp.b[f]
  /\ ~IsNaN(lastQuoteCmp.a.ask_price)
  /\ ~IsNaN(lastQuoteCmp.a.bid_price)
  /\ lastQuoteCmp.a.bid_size # lastQuoteCmp.b.bid_size
  /\ lastQuoteCmp.ne
  /\ ~lastQuoteCmp.eq

\* C12: after Update(s) with s different from the stored bucket, the stored
\* bucket is s and the counter has restarted (it is 0 or 1); after Update(s)
\* with s equal to the stored bucket, the bucket is unchanged and the counter
\* is one greater than before the call.
C12_UpdateReplacesBucket ==
  updates # <<>> =>
    IF Last(updates) # thBefore.tm
      THEN th.tm = Last(updates) /\ th.n <= 1
      ELSE th.tm = thBefore.tm /\ th.n = thBefore.n + 1

\* C13: operator()(t) returns the counter when t is the stored bucket and 0
\* for every other t, in every state Update calls reach, and leaves the
\* bucket and the counter as they were.
C13_ReadReturnsLiveCount ==
  rd.valid =>
    /\ rd.val = (IF rd.tm = rd.th.tm THEN rd.th.n ELSE 0)
    /\ th = rd.th

\* The counter has been read at the stored bucket after two or more
\* increments; 0 is what a read at any other second gives in that state.
C13_Witness ==
  /\ rd.valid
  /\ rd.tm = th.tm
  /\ th.n >= 2
  /\ rd.val = th.n
  /\ \E t \in Seconds : t # th.tm /\ ThrottleRead(th, t) = 0

\* C14: when every Update call of the threads is for the second that is the
\* stored bucket, then once all calls have returned the counter is greater
\* than before the calls (0) by exactly the number of calls, whatever the
\* interleaving of their statements.
C14_NoLostUpdate ==
  (sameOnly /\ \A t \in Contexts : pcU[t] = "idle") => th.n = doneU

\* Three calls for the stored bucket have returned, one of them started
\* while another thread was inside Update.
C14_Witness ==
  /\ sameOnly
  /\ overlapped
  /\ \A t \in Contexts : pcU[t] = "idle"
  /\ doneU >= 3
  /\ th.n = doneU

\* C15: the derived-cache lock is one reader/writer lock for all records:
\* while a thread is inside the write of SetDerived on any record, no other
\* thread is inside SetDerived or GetDerived on any record.  (That several
\* GetDerived calls can be inside at once is the state of C15_Witness.)
C15_WriterExcludesAll ==
  \A t \in Threads :
    pcD[t] = "writing" => \A u \in Threads \ {t} : pcD[u] \notin {"writing", "reading"}

\* Two threads are inside GetDerived on different records at the same time,
\* and a third waits for the lock to write.
C15_Witness ==
  \E t \in Threads, u \in Threads, w \in Threads :
    /\ pcD[t] = "reading"
    /\ pcD[u] = "reading"
    /\ opD[t].rec # opD[u].rec
    /\ pcD[w] = "lockw"
    /\ ~CanLockUnique(mutex_[MutexOf(opD[w].rec)])

\* C16: the rejection diagnostic belongs to the calling context: a Check call
\* on one context, whatever calls of the other context come before and after
\* it, leaves the diagnostic the other context reads as it was.
C16_DiagnosticPerContext ==
  [][nchecks' # nchecks =>
       \A c \in Contexts \ {lastCheck'.ctx} : kRiskError'[c] = kRiskError[c]]_vars

\* A context has just recorded a rejection while the other context holds the
\* diagnostic of its own, different earlier rejection.
C16_Witness ==
  /\ lastCheck.valid
  /\ ~lastCheck.result
  /\ kRiskError[lastCheck.ctx] # ""
  /\ \E c \in Contexts \ {lastCheck.ctx} :
       kRiskError[c] # "" /\ kRiskError[c] # kRiskError[lastCheck.ctx]

\* C17: Trade inequality reads volume, close, high and low only: a != b holds
\* exactly when one of the four differs, so two trades that differ in open,
\* vwap or qty only are not reported as changed.
C17_TradeNeFourFields ==
  lastTradeCmp.valid =>
    (lastTradeCmp.ne <=>
       \E f \in TradeChangeFields : DoubleNe(lastTradeCmp.a[f], lastTradeCmp.b[f]))

\* Two trades that differ in open, vwap and qty, and in nothing else, were
\* compared and reported as not changed.
C17_Witness ==
  /\ lastTradeCmp.valid
  /\ lastTradeCmp.a.open # lastTradeCmp.b.open
  /\ lastTradeCmp.a.vwap # lastTradeCmp.b.vwap
  /\ lastTradeCmp.a.qty # lastTradeCmp.b.qty
  /\ \A f \in TradeChangeFields : lastTradeCmp.a[f] = lastTradeCmp.b[f]
  /\ ~lastTradeCmp.ne

\* C18: every SetDerived(value, slot) with slot < 16 writes inside the
\* vector: at the element write slot < size(), also for the first write to a
\* fresh record and for a slot at or beyond the size the vector had.
C18_WriteInsideStorage == lastSet.valid => lastSet.inside

====
